---- MODULE Spec2Model ----
(***************************************************************************)
(* Model of src/wanted.py: ProgrammersCrawler.                             *)
(*                                                                         *)
(* JSON values are tagged records; Python strings are sequences of         *)
(* one-character strings, so that replace/split/strip are computed.        *)
(* A Python call ends either by returning a value or by raising: it is a   *)
(* record [exc, val] with exc = "none" for a normal return.                *)
(***************************************************************************)
EXTENDS Integers, Sequences, FiniteSets, TLC

VARIABLES
    pc,          \* position of the crawler: idle, list, detail, done, raised
    max_pages,   \* argument of crawl()
    page,        \* loop variable of the discovery loop
    job_ids,     \* self.job_ids
    results,     \* self.results
    pending,     \* identifiers the enrichment loop has not yet visited
    requested,   \* history: the pages passed to get_job_list, in order
    listed,      \* history: what get_job_list did for each requested page
    fetched,     \* history: the identifiers passed to get_job_detail, in order
    log,         \* history: requests and sleeps, in order
    files,       \* the file system: filename -> rows written
    save_calls,  \* history: number of save_to_csv calls
    call,        \* the helper call under test (pure-function specification)
    ret          \* its outcome

vars == <<pc, max_pages, page, job_ids, results, pending, requested, listed,
          fetched, log, files, save_calls, call, ret>>

crawlVars == <<pc, max_pages, page, job_ids, results, pending, requested,
               listed, fetched, log, files, save_calls>>

fnVars == <<call, ret>>

----------------------------------------------------------------------------
(* Bounds *)

MaxPages == 2
MaxLen == 3
MaxPathLen == 2
MaxSaves == 2

----------------------------------------------------------------------------
(* JSON values and Python outcomes *)

JNull == [t |-> "null"]
JInt(n) == [t |-> "int", n |-> n]
JStr(s) == [t |-> "str", s |-> s]
JList(l) == [t |-> "list", l |-> l]
JDict(d) == [t |-> "dict", d |-> d]

Return(v) == [exc |-> "none", val |-> v]
Raise(e) == [exc |-> e, val |-> JNull]

\* Python truth value of a JSON value (None, 0, "", [] and {} are falsy).
Truthy(v) ==
    CASE v.t = "null" -> FALSE
      [] v.t = "int" -> v.n # 0
      [] v.t = "str" -> v.s # <<>>
      [] v.t = "list" -> v.l # <<>>
      [] v.t = "dict" -> DOMAIN v.d # {}

Digit(n) == CASE n = 0 -> "0" [] n = 1 -> "1" [] n = 2 -> "2" [] n = 3 -> "3"
              [] n = 4 -> "4" [] n = 5 -> "5" [] n = 6 -> "6" [] n = 7 -> "7"
              [] n = 8 -> "8" [] n = 9 -> "9"

RECURSIVE Decimal(_)
Decimal(n) == IF n < 10 THEN <<Digit(n)>> ELSE Decimal(n \div 10) \o <<Digit(n % 10)>>

\* str(x) for the values the crawler stringifies: identifiers and category ids.
Str(v) ==
    CASE v.t = "str" -> v.s
      [] v.t = "int" -> IF v.n < 0 THEN <<"-">> \o Decimal(-v.n) ELSE Decimal(v.n)
      [] v.t = "null" -> <<"N", "o", "n", "e">>

\* dict.get(key, default): AttributeError on anything that is not a dict.
Get(v, key, default) ==
    IF v.t # "dict" THEN Raise("AttributeError")
    ELSE IF key \in DOMAIN v.d THEN Return(v.d[key]) ELSE Return(default)

\* The keys of a dict as a list of str (a key is one token; insertion order is
\* not part of the model).
KeyList(d) ==
    LET order == CHOOSE s \in [1..Cardinality(DOMAIN d) -> DOMAIN d] :
                     \A i, j \in DOMAIN s : i # j => s[i] # s[j]
    IN [i \in DOMAIN order |-> JStr(<<order[i]>>)]

\* for x in v: the items iterated, TypeError when v is not iterable.
Iterate(v) ==
    CASE v.t = "list" -> Return(v.l)
      [] v.t = "str" -> Return([i \in 1..Len(v.s) |-> JStr(<<v.s[i]>>)])
      [] v.t = "dict" -> Return(KeyList(v.d))
      [] OTHER -> Raise("TypeError")

----------------------------------------------------------------------------
(* safe_get *)

\* result[key]
Index(v, key) ==
    IF v.t = "dict"
    THEN IF key \in DOMAIN v.d THEN Return(v.d[key]) ELSE Raise("KeyError")
    ELSE Raise("TypeError")

RECURSIVE Walk(_, _)
Walk(result, keys) ==
    IF keys = <<>> THEN Return(result)
    ELSE LET r == Index(result, Head(keys))
         IN IF r.exc # "none" THEN r ELSE Walk(r.val, Tail(keys))

SafeGetCaught == {"KeyError", "TypeError", "AttributeError"}

NoneToDefault_keepNone(result, default) == result

NoneToDefault(result, default) == IF result.t # "null" THEN result ELSE default

safe_get(data, keys, default) ==
    LET w == Walk(data, keys)
    IN IF w.exc = "none" THEN Return(NoneToDefault(w.val, default))
       ELSE IF w.exc \in SafeGetCaught THEN Return(default)
       ELSE w

----------------------------------------------------------------------------
(* safe_split *)

Bullet == "*"     \* stands for U+2022
Newline == "\n"
Whitespace == {" ", Newline}

RECURSIVE replace(_, _, _)
replace(s, old, new) ==
    IF Len(s) < Len(old) THEN s
    ELSE IF SubSeq(s, 1, Len(old)) = old
         THEN new \o replace(SubSeq(s, Len(old) + 1, Len(s)), old, new)
         ELSE <<Head(s)>> \o replace(Tail(s), old, new)

RECURSIVE SplitFrom(_, _, _)
SplitFrom(s, delimiter, cur) ==
    IF Len(s) >= Len(delimiter) /\ SubSeq(s, 1, Len(delimiter)) = delimiter
    THEN <<cur>> \o SplitFrom(SubSeq(s, Len(delimiter) + 1, Len(s)), delimiter, <<>>)
    ELSE IF s = <<>> THEN <<cur>>
         ELSE SplitFrom(Tail(s), delimiter, cur \o <<Head(s)>>)

split(s, delimiter) == SplitFrom(s, delimiter, <<>>)

RECURSIVE lstrip(_)
lstrip(s) == IF s # <<>> /\ Head(s) \in Whitespace THEN lstrip(Tail(s)) ELSE s

RECURSIVE rstrip(_)
rstrip(s) ==
    IF s # <<>> /\ s[Len(s)] \in Whitespace THEN rstrip(SubSeq(s, 1, Len(s) - 1)) ELSE s

strip(s) == rstrip(lstrip(s))

RECURSIVE StripNonEmpty(_)
StripNonEmpty(items) ==
    IF items = <<>> THEN <<>>
    ELSE (IF strip(Head(items)) # <<>> THEN <<strip(Head(items))>> ELSE <<>>)
         \o StripNonEmpty(Tail(items))

\* Returns a Python list of str, as a sequence of character sequences.
safe_split(text, delimiter) ==
    IF ~Truthy(text) THEN Return(<<>>)
    ELSE IF text.t # "str" THEN Raise("AttributeError")
    ELSE Return(StripNonEmpty(
             split(replace(replace(text.s, <<Bullet, " ">>, <<>>), <<Bullet>>, <<>>),
                   delimiter)))

----------------------------------------------------------------------------
(* HTTP *)

\* requests.get(url); response.raise_for_status(); response.json()
\* (requests.exceptions.JSONDecodeError is a RequestException).
Fetch(resp) ==
    CASE resp.kind = "transport" -> Raise("ConnectionError")
      [] resp.kind = "http" -> Raise("HTTPError")
      [] resp.kind = "badjson" -> Raise("JSONDecodeError")
      [] resp.kind = "ok" -> Return(resp.body)

RequestException == {"ConnectionError", "HTTPError", "JSONDecodeError"}

----------------------------------------------------------------------------
(* get_job_list *)

\* the filter of the comprehension: if item.get('id')
HasId(id) == Truthy(id)

\* [str(item.get('id')) for item in items if item.get('id')]
RECURSIVE ExtractIds(_)
ExtractIds(items) ==
    IF items = <<>> THEN Return(<<>>)
    ELSE LET id == Get(Head(items), "id", JNull)
         IN IF id.exc # "none" THEN id
            ELSE LET rest == ExtractIds(Tail(items))
                 IN IF rest.exc # "none" THEN rest
                    ELSE Return((IF HasId(id.val) THEN <<Str(id.val)>> ELSE <<>>)
                                \o rest.val)

\* the try block of get_job_list
ListBody(resp) ==
    LET data == Fetch(resp)
    IN IF data.exc # "none" THEN data
       ELSE LET positions == Get(data.val, "jobPositions", JList(<<>>))
            IN IF positions.exc # "none" THEN positions
               ELSE LET items == Iterate(positions.val)
                    IN IF items.exc # "none" THEN items ELSE ExtractIds(items.val)

\* Returns a list of str; only RequestException is caught.
get_job_list(resp) ==
    LET out == ListBody(resp)
    IN IF out.exc \in RequestException THEN Return(<<>>) ELSE out

----------------------------------------------------------------------------
(* get_job_detail *)

\* The fallback literals (Korean in the source; one token each).
Lit(s) == JStr(<<s>>)
NoTitle == Lit("no title")
NoIntro == Lit("no intro")
NoCategory == Lit("no category")
NoCompName == Lit("no company name")
NoAddress == Lit("no address")
NoRole == Lit("no role info")
NoRequirement == Lit("no requirement info")
NoPreferred == Lit("no preference info")
NoDue == Lit("due date undecided")
NoTechStack == Lit("no tech stack")
NoWelfare == Lit("no welfare info")
NoProcedure == Lit("procedure undecided")

\* xs or [fallback], as a JSON list
OrList(xs, fallback) == JList(IF xs # <<>> THEN xs ELSE <<fallback>>)

StrList(lines) == [i \in DOMAIN lines |-> JStr(lines[i])]

\* [str(cat_id) for cat_id in job_position.get('jobCategoryIds', [])]
Categories(job_position) ==
    LET ids == Get(job_position, "jobCategoryIds", JList(<<>>))
    IN IF ids.exc # "none" THEN ids
       ELSE LET items == Iterate(ids.val)
            IN IF items.exc # "none" THEN items
               ELSE Return([i \in DOMAIN items.val |-> JStr(Str(items.val[i]))])

RECURSIVE TagNames(_)
TagNames(tags) ==
    IF tags = <<>> THEN Return(<<>>)
    ELSE LET name == Get(Head(tags), "name", JStr(<<>>))
         IN IF name.exc # "none" THEN name
            ELSE LET rest == TagNames(Tail(tags))
                 IN IF rest.exc # "none" THEN rest
                    ELSE Return(<<name.val>> \o rest.val)

\* [tag.get('name', '') for tag in job_position.get('technicalTags', [])]
TechStacks(job_position) ==
    LET tags == Get(job_position, "technicalTags", JList(<<>>))
    IN IF tags.exc # "none" THEN tags
       ELSE LET items == Iterate(tags.val)
            IN IF items.exc # "none" THEN items ELSE TagNames(items.val)

\* self.safe_split(job_position.get(key, default))
SplitField(job_position, key, default) ==
    LET text == Get(job_position, key, default)
    IN IF text.exc # "none" THEN text ELSE safe_split(text.val, <<Newline>>)

\* 'role': description_lines or [...]
RoleField(description_lines) == OrList(StrList(description_lines), NoRole)

RequirementField_fallbackOnly(description_lines) == JList(<<NoRequirement>>)

\* 'requirement': description_lines or [...]
RequirementField(description_lines) == OrList(StrList(description_lines), NoRequirement)

\* the try block of get_job_detail
DetailBody(resp) ==
    LET data == Fetch(resp)
        jp == IF data.exc # "none" THEN data
              ELSE Get(data.val, "jobPosition", JDict(<<>>))
        job_position == jp.val
        categories == Categories(job_position)
        tech_stacks == TechStacks(job_position)
        description_lines == SplitField(job_position, "description", JStr(<<>>))
        title == Get(job_position, "title", NoTitle)
        intro == Get(job_position, "description", NoIntro)
        comp_name == safe_get(job_position, <<"company", "name">>, NoCompName)
        comp_addr == Get(job_position, "address", NoAddress)
        preferred == SplitField(job_position, "preferredExperience", JNull)
        due == Get(job_position, "endAt", NoDue)
        welfare == SplitField(job_position, "additionalInformation", JNull)
        procedure == Get(job_position, "additionalInformation", NoProcedure)
        steps == <<jp, categories, tech_stacks, description_lines, title, intro,
                   comp_name, comp_addr, preferred, due, welfare, procedure>>
    IN IF \E i \in DOMAIN steps : steps[i].exc # "none"
       THEN steps[CHOOSE i \in DOMAIN steps :
                     /\ steps[i].exc # "none"
                     /\ \A j \in 1..(i - 1) : steps[j].exc = "none"]
       ELSE Return(JDict([
                title |-> title.val,
                intro |-> intro.val,
                category |-> OrList(categories.val, NoCategory),
                comp_name |-> comp_name.val,
                comp_addr |-> comp_addr.val,
                role |-> RoleField(description_lines.val),
                requirement |-> RequirementField(description_lines.val),
                preferred |-> OrList(StrList(preferred.val), NoPreferred),
                due |-> due.val,
                tech_stack |-> OrList(tech_stacks.val, NoTechStack),
                welfare |-> OrList(StrList(welfare.val), NoWelfare),
                procedure |-> procedure.val]))

\* Returns the job record, or None: both except clauses return None.
get_job_detail(resp) ==
    LET out == DetailBody(resp)
    IN IF out.exc # "none" THEN Return(JNull) ELSE out

----------------------------------------------------------------------------
(* Inputs of the helper calls *)

Chars == {Bullet, " ", "a", Newline}
Texts == UNION {[1..k -> Chars] : k \in 0..MaxLen}

Absent == [t |-> "absent"]
Prune(f) == [k \in {x \in DOMAIN f : f[x].t # "absent"} |-> f[k]]

\* safe_get: nested values two levels deep, paths of str keys
Leaves == {JNull, JInt(0), JStr(<<"a">>), JList(<<>>)}
DictKeys == {"company", "name"}
PathKeys == {"company", "name", "zip"}
DictsOver(V) == UNION {{JDict(f) : f \in [S -> V]} : S \in SUBSET DictKeys}
Nested == Leaves \cup DictsOver(Leaves \cup DictsOver(Leaves))
Paths == UNION {[1..k -> PathKeys] : k \in 0..MaxPathLen}
Default == Lit("default")

SafeGetCalls ==
    {[fn |-> "safe_get", data |-> d, keys |-> ks, default |-> Default] :
        d \in Nested, ks \in Paths}

\* get_job_list: listing responses
Failures ==
    {[kind |-> k, body |-> JNull] : k \in {"transport", "http", "badjson"}}
Ok(body) == [kind |-> "ok", body |-> body]

IdValues == {JNull, JInt(0), JInt(7), JInt(12), JStr(<<>>), JStr(<<"7">>)}
Entries == {JDict([id |-> v]) : v \in IdValues} \cup {JDict(<<>>), JNull}
EntryLists == UNION {[1..k -> Entries] : k \in 0..MaxLen}
ListBodies ==
    {JList(<<>>), JNull, JDict(<<>>)}
    \cup {JDict([jobPositions |-> v]) : v \in {JNull, JInt(1), JStr(<<>>), JStr(<<"a">>)}}
    \cup {JDict([jobPositions |-> JList(es)]) : es \in EntryLists}
ListResponses == Failures \cup {Ok(b) : b \in ListBodies}

GetJobListCalls == {[fn |-> "get_job_list", resp |-> r] : r \in ListResponses}

\* get_job_detail: detail responses
SomeText == JStr(<<Bullet, " ", "a">>)
Scalar == {Absent, JNull, JStr(<<"a">>)}
ShapePositions ==
    [title : Scalar, address : Scalar, endAt : Scalar,
     description : {Absent, JNull, SomeText, JInt(5)},
     jobCategoryIds : {Absent, JNull, JList(<<JInt(3), JInt(10)>>)},
     technicalTags : {Absent, JList(<<JNull>>),
                      JList(<<JDict([name |-> JNull])>>),
                      JList(<<JDict([name |-> JStr(<<"a">>)]), JDict(<<>>)>>)},
     company : {Absent, JNull, JDict([name |-> JNull]),
                JDict([name |-> JStr(<<"a">>)])},
     preferredExperience : {Absent, SomeText},
     additionalInformation : {Absent, JNull, SomeText}]
TextPositions ==
    [description : {JStr(t) : t \in Texts},
     additionalInformation : {Absent, JStr(<<"a", Newline>>)}]
DetailBodies ==
    {JList(<<>>), JDict(<<>>), JDict([jobPosition |-> JNull])}
    \cup {JDict([jobPosition |-> JDict(Prune(f))]) : f \in ShapePositions \cup TextPositions}
DetailResponses == Failures \cup {Ok(b) : b \in DetailBodies}

GetJobDetailCalls == {[fn |-> "get_job_detail", resp |-> r] : r \in DetailResponses}

----------------------------------------------------------------------------
(* The crawler after construction *)

NoCall == [fn |-> "none"]
Pending == [exc |-> "pending", val |-> JNull]

InitCrawler ==
    /\ pc = "idle"
    /\ max_pages = 0
    /\ page = 0
    /\ job_ids = {}
    /\ results = <<>>
    /\ pending = {}
    /\ requested = <<>>
    /\ listed = <<>>
    /\ fetched = <<>>
    /\ log = <<>>
    /\ files = <<>>
    /\ save_calls = 0

----------------------------------------------------------------------------
(* Specification of the helpers: one call on a fresh crawler *)

InitFn ==
    /\ InitCrawler
    /\ call \in SafeGetCalls \cup GetJobListCalls \cup GetJobDetailCalls
    /\ ret = Pending

CallSafeGet ==
    /\ call.fn = "safe_get" /\ ret = Pending
    /\ ret' = safe_get(call.data, call.keys, call.default)
    /\ UNCHANGED <<call, crawlVars>>

CallGetJobList ==
    /\ call.fn = "get_job_list" /\ ret = Pending
    /\ ret' = get_job_list(call.resp)
    /\ UNCHANGED <<call, crawlVars>>

CallGetJobDetail ==
    /\ call.fn = "get_job_detail" /\ ret = Pending
    /\ ret' = get_job_detail(call.resp)
    /\ UNCHANGED <<call, crawlVars>>

NextFn == CallSafeGet \/ CallGetJobList \/ CallGetJobDetail

SpecFn == InitFn /\ [][NextFn]_vars

Returned(fn) == call.fn = fn /\ ret # Pending

----------------------------------------------------------------------------
(* crawl *)

\* Responses the remote service gives during a crawl.
CrawlListResponses ==
    Failures \cup
    {Ok(JDict(<<>>)),
     Ok(JDict([jobPositions |-> JNull])),
     Ok(JDict([jobPositions |-> JList(<<JDict([id |-> JInt(7)]), JDict([id |-> JInt(12)])>>)])),
     Ok(JDict([jobPositions |-> JList(<<JDict([id |-> JStr(<<"7">>)]), JDict([id |-> JInt(0)])>>)])),
     Ok(JDict([jobPositions |-> JList(<<JDict([id |-> JInt(3)])>>)]))}

CrawlDetailResponses ==
    Failures \cup
    {Ok(JDict([jobPosition |-> JNull])),
     Ok(JDict(<<>>)),
     Ok(JDict([jobPosition |-> JDict([title |-> JNull,
                                      technicalTags |-> JList(<<JDict([name |-> JNull])>>)])]))}

Range(s) == {s[i] : i \in DOMAIN s}

Sleep == [ev |-> "sleep", got |-> FALSE]

StopsDiscovery_never(new_ids) == FALSE

\* if not new_ids: break
StopsDiscovery(new_ids) == new_ids = <<>>

\* the requests and sleeps of one pass of the discovery loop
ListTrace(new_ids) ==
    IF StopsDiscovery(new_ids) THEN <<[ev |-> "list", got |-> FALSE]>>
    ELSE <<[ev |-> "list", got |-> TRUE], Sleep>>

DetailTrace_sleepOnSuccess(got) ==
    IF got THEN <<[ev |-> "detail", got |-> got], Sleep>>
    ELSE <<[ev |-> "detail", got |-> got]>>

\* the requests and sleeps of one pass of the enrichment loop
DetailTrace(got) == <<[ev |-> "detail", got |-> got], Sleep>>

Keep_inverted(job_detail) == ~Truthy(job_detail)

\* if job_detail:
Keep(job_detail) == Truthy(job_detail)

Remaining_retryFailed(rest, job_id, job_detail) ==
    IF job_detail.t = "null" THEN rest ELSE rest \ {job_id}

\* for job_id in self.job_ids: the loop moves on whatever job_detail is
Remaining(rest, job_id, job_detail) == rest \ {job_id}

\* The discovery loop is over: the enrichment loop starts on ids.
StartEnrichment(ids) ==
    /\ pending' = ids
    /\ pc' = IF ids = {} THEN "done" ELSE "detail"

\* crawl(max_pages) up to its first request
Crawl(mp) ==
    /\ pc = "idle"
    /\ max_pages' = mp
    /\ IF mp >= 1
       THEN pc' = "list" /\ page' = 1 /\ UNCHANGED pending
       ELSE StartEnrichment(job_ids) /\ UNCHANGED page
    /\ UNCHANGED <<job_ids, results, requested, listed, fetched, log, files,
                   save_calls, fnVars>>

\* one pass of the discovery loop: the request of a page and what follows it
ListPage(resp) ==
    /\ pc = "list"
    /\ LET out == get_job_list(resp)
       IN /\ requested' = Append(requested, page)
          /\ listed' = Append(listed, out)
          /\ IF out.exc # "none"
             THEN /\ pc' = "raised"
                  /\ log' = Append(log, [ev |-> "list", got |-> FALSE])
                  /\ UNCHANGED <<job_ids, page, pending>>
             ELSE /\ log' = log \o ListTrace(out.val)
                  /\ IF StopsDiscovery(out.val)
                     THEN /\ StartEnrichment(job_ids)
                          /\ UNCHANGED <<job_ids, page>>
                     ELSE /\ job_ids' = job_ids \cup Range(out.val)
                          /\ IF page < max_pages
                             THEN /\ page' = page + 1
                                  /\ UNCHANGED <<pc, pending>>
                             ELSE /\ StartEnrichment(job_ids')
                                  /\ UNCHANGED page
    /\ UNCHANGED <<max_pages, results, fetched, files, save_calls, fnVars>>

\* one pass of the enrichment loop (a set is iterated in no specified order)
DetailOne(job_id, resp) ==
    /\ pc = "detail"
    /\ job_id \in pending
    /\ LET out == get_job_detail(resp)
           job_detail == out.val
       IN /\ fetched' = Append(fetched, [id |-> job_id, ok |-> out = Return(job_detail) /\ job_detail.t # "null"])
          /\ IF out.exc # "none"
             THEN /\ pc' = "raised"
                  /\ log' = Append(log, [ev |-> "detail", got |-> FALSE])
                  /\ UNCHANGED <<results, pending>>
             ELSE /\ results' = IF Keep(job_detail) THEN Append(results, job_detail)
                                ELSE results
                  /\ log' = log \o DetailTrace(job_detail.t # "null")
                  /\ pending' = Remaining(pending, job_id, job_detail)
                  /\ pc' = IF pending' = {} THEN "done" ELSE "detail"
    /\ UNCHANGED <<max_pages, page, job_ids, requested, listed, files,
                   save_calls, fnVars>>

----------------------------------------------------------------------------
(* save_to_csv *)

\* programmers_jobs_{YYYYMMDD_HHMMSS}.csv (the clock is not modelled)
DefaultName == <<"programmers_jobs_", "now", ".csv">>
ListColumns == {"category", "role", "requirement", "preferred", "tech_stack", "welfare"}
Filenames == {JNull, JStr(<<>>), JStr(<<"out.csv">>)}

\* sep.join(xs): TypeError unless every item is a str
RECURSIVE Join(_, _)
Join(xs, sep) ==
    IF xs = <<>> THEN Return(<<>>)
    ELSE IF Head(xs).t # "str" THEN Raise("TypeError")
    ELSE IF Len(xs) = 1 THEN Return(Head(xs).s)
    ELSE LET rest == Join(Tail(xs), sep)
         IN IF rest.exc # "none" THEN rest ELSE Return(Head(xs).s \o sep \o rest.val)

\* lambda x: '|'.join(x) if isinstance(x, list) else str(x)
FlattenCell(x) ==
    IF x.t = "list"
    THEN LET joined == Join(x.l, <<"|">>)
         IN IF joined.exc # "none" THEN joined ELSE Return(JStr(joined.val))
    ELSE Return(JStr(Str(x)))

\* the DataFrame with its list columns joined, row by row
Flatten(records) ==
    LET cell(i, col) == FlattenCell(records[i].d[col])
    IN IF \E i \in DOMAIN records, col \in ListColumns : cell(i, col).exc # "none"
       THEN Raise("TypeError")
       ELSE Return([i \in DOMAIN records |->
                [col \in DOMAIN records[i].d |->
                    IF col \in ListColumns THEN cell(i, col).val
                    ELSE records[i].d[col]]])

NothingToSave_never(records) == FALSE

\* if not self.results: return
NothingToSave(records) == records = <<>>

\* The file system after save_to_csv; every exception of the try block is
\* caught. io is whether the write itself succeeds.
Written(fs, records, filename, io) ==
    LET name == IF ~Truthy(filename) THEN DefaultName ELSE filename.s
        df == Flatten(records)
    IN IF NothingToSave(records) THEN Return(fs)
       ELSE IF df.exc # "none" \/ io = "fail" THEN Return(fs)
       ELSE Return([n \in DOMAIN fs \cup {name} |-> IF n = name THEN df.val ELSE fs[n]])

save_to_csv(filename, io) ==
    /\ pc \in {"idle", "done", "raised"}
    /\ save_calls < MaxSaves
    /\ save_calls' = save_calls + 1
    /\ LET out == Written(files, results, filename, io)
       IN IF out.exc # "none"
          THEN pc' = "raised" /\ UNCHANGED files
          ELSE files' = out.val /\ UNCHANGED pc
    /\ UNCHANGED <<max_pages, page, job_ids, results, pending, requested,
                   listed, fetched, log, fnVars>>

----------------------------------------------------------------------------
(* Specification of the crawler *)

Init ==
    /\ InitCrawler
    /\ call = NoCall
    /\ ret = Pending

Next ==
    \/ \E mp \in 0..MaxPages : Crawl(mp)
    \/ \E resp \in CrawlListResponses : ListPage(resp)
    \/ \E job_id \in pending, resp \in CrawlDetailResponses : DetailOne(job_id, resp)
    \/ \E filename \in Filenames, io \in {"ok", "fail"} : save_to_csv(filename, io)

Spec == Init /\ [][Next]_vars

----------------------------------------------------------------------------
(* Properties of the helpers *)

\* The value found after the first i keys of the path, when every one of them
\* names an entry of a dict.
RECURSIVE Resolves(_, _, _)
Resolves(data, keys, i) ==
    IF i = 0 THEN TRUE
    ELSE /\ Resolves(data, keys, i - 1)
         /\ LET v == Walk(data, SubSeq(keys, 1, i - 1)).val
            IN v.t = "dict" /\ keys[i] \in DOMAIN v.d

RECURSIVE Terminal(_, _)
Terminal(data, keys) ==
    IF keys = <<>> THEN data ELSE Terminal(data.d[Head(keys)], Tail(keys))

\* C6: safe_get never raises; it returns the default when a segment of the
\* path is absent, null or not indexable or the final value is null, and the
\* terminal value otherwise.
SafeGetTotal ==
    Returned("safe_get") =>
        /\ ret.exc = "none"
        /\ LET n == Len(call.keys)
           IN IF /\ Resolves(call.data, call.keys, n)
                 /\ Terminal(call.data, call.keys).t # "null"
              THEN ret.val = Terminal(call.data, call.keys)
              ELSE ret.val = call.default

SafeGetTerminalNull ==
    /\ Returned("safe_get")
    /\ Len(call.keys) = 2
    /\ Resolves(call.data, call.keys, 2)
    /\ Terminal(call.data, call.keys).t = "null"
    /\ ret = Return(call.default)

\* The listing array of a successful response whose entries are all objects.
WellFormedListing(resp) ==
    /\ resp.kind = "ok"
    /\ resp.body.t = "dict"
    /\ "jobPositions" \in DOMAIN resp.body.d
    /\ resp.body.d["jobPositions"].t = "list"
    /\ \A i \in DOMAIN resp.body.d["jobPositions"].l :
           resp.body.d["jobPositions"].l[i].t = "dict"

RECURSIVE NonNullIds(_)
NonNullIds(items) ==
    IF items = <<>> THEN <<>>
    ELSE (IF "id" \in DOMAIN Head(items).d /\ Head(items).d["id"].t # "null"
          THEN <<Str(Head(items).d["id"])>> ELSE <<>>)
         \o NonNullIds(Tail(items))

\* C7: on a successful listing response get_job_list returns, in listing
\* order, the string form of every non-null id (0 and "" included) and skips
\* exactly the entries without an identifier.
ListReturnsNonNullIds ==
    Returned("get_job_list") /\ WellFormedListing(call.resp) =>
        ret = Return(NonNullIds(call.resp.body.d["jobPositions"].l))

RecordFields ==
    {"title", "intro", "category", "comp_name", "comp_addr", "role",
     "requirement", "preferred", "due", "tech_stack", "welfare", "procedure"}

GotRecord == Returned("get_job_detail") /\ ret.val.t = "dict"

\* C4: every record get_job_detail returns has the 12 fields, none of them
\* null.
RecordFieldsNonNull ==
    GotRecord =>
        /\ DOMAIN ret.val.d = RecordFields
        /\ \A k \in RecordFields : ret.val.d[k].t # "null"

\* The description of the response behind a record, absent when there is none.
DescriptionOf(resp) ==
    IF "jobPosition" \notin DOMAIN resp.body.d THEN Absent
    ELSE IF "description" \notin DOMAIN resp.body.d["jobPosition"].d THEN Absent
    ELSE resp.body.d["jobPosition"].d["description"]

\* C8, as claimed: role and requirement are equal in every record, whatever
\* the description.
RoleEqualsRequirement ==
    GotRecord => ret.val.d["role"] = ret.val.d["requirement"]

HasLines(description) ==
    /\ description.t = "str"
    /\ \E i \in DOMAIN description.s : description.s[i] \notin Whitespace \cup {Bullet}

\* C8, amended: role and requirement are the same non-empty list when the
\* description has a line of text; otherwise role is the role fallback and
\* requirement the requirement fallback.
RoleRequirementSplit ==
    GotRecord =>
        IF HasLines(DescriptionOf(call.resp))
        THEN /\ ret.val.d["role"] = ret.val.d["requirement"]
             /\ ret.val.d["role"].l # <<>>
             /\ \A i \in DOMAIN ret.val.d["role"].l :
                    ret.val.d["role"].l[i] \notin {NoRole, NoRequirement}
        ELSE /\ ret.val.d["role"] = JList(<<NoRole>>)
             /\ ret.val.d["requirement"] = JList(<<NoRequirement>>)

RoleRequirementSameLines ==
    /\ GotRecord
    /\ DescriptionOf(call.resp) = JStr(<<Bullet, " ", "a">>)
    /\ ret.val.d["role"] = JList(<<JStr(<<"a">>)>>)
    /\ ret.val.d["requirement"] = JList(<<JStr(<<"a">>)>>)

----------------------------------------------------------------------------
(* Properties of the crawler *)

\* C1: the pages are requested once each in increasing order up to the cap,
\* and the first page for which get_job_list returns an empty list is the
\* last page requested.
StopsAtFirstEmptyPage ==
    /\ requested = [i \in 1..Len(requested) |-> i]
    /\ Len(requested) <= max_pages
    /\ Len(listed) = Len(requested)
    /\ \A k \in DOMAIN listed : listed[k] = Return(<<>>) => Len(requested) = k
    /\ pc = "list" => page = Len(requested) + 1

EmptyPageBelowCap ==
    /\ pc = "done"
    /\ max_pages = 2
    /\ requested = <<1>>
    /\ listed = <<Return(<<>>)>>

Succeeded == {i \in DOMAIN fetched : fetched[i].ok}

\* C2: once the enrichment loop runs crawl() does not stop before its end;
\* when it returns, every accumulated identifier has been passed to
\* get_job_detail and results has one record per successful fetch.
EnrichmentSkipsFailures ==
    /\ pc = "raised" => fetched = <<>>
    /\ pc = "detail" => pending # {}
    /\ pc = "done" =>
          /\ {fetched[i].id : i \in DOMAIN fetched} = job_ids
          /\ Len(results) = Cardinality(Succeeded)
          /\ \A i \in DOMAIN results : results[i].t = "dict"

SuccessAfterFailure ==
    /\ pc = "done"
    /\ Len(fetched) = 2
    /\ ~fetched[1].ok
    /\ fetched[2].ok
    /\ Len(results) = 1

\* C3: crawl() never raises, whatever the listing and detail requests do.
CrawlNeverRaises == pc # "raised"

\* C5: an identifier is passed to get_job_detail at most once, also when it
\* is listed on several pages, and results has at most one record for each
\* identifier fetched.
FetchedOnce ==
    /\ \A i, j \in DOMAIN fetched : fetched[i].id = fetched[j].id => i = j
    /\ \A i \in DOMAIN fetched : fetched[i].id \in job_ids \ pending
    /\ Len(results) <= Len(fetched)

ListedTwiceFetchedOnce ==
    /\ pc = "done"
    /\ Len(listed) = 2
    /\ <<"7">> \in Range(listed[1].val) \cap Range(listed[2].val)
    /\ Cardinality({i \in DOMAIN fetched : fetched[i].id = <<"7">>}) = 1

\* C9: save_to_csv on empty results writes no file, raises nothing and leaves
\* results and job_ids as they are, with or without a filename.
SaveEmptyWritesNothing ==
    [][save_calls' # save_calls /\ results = <<>> =>
          /\ files' = files
          /\ DOMAIN files = {}
          /\ results' = results
          /\ job_ids' = job_ids
          /\ pc' = pc]_vars

SavedNothingAfterCrawl ==
    /\ save_calls > 0
    /\ pc = "done"
    /\ job_ids # {}
    /\ results = <<>>
    /\ DOMAIN files = {}

FollowedBySleep(i) == i < Len(log) /\ log[i + 1].ev = "sleep"

\* C10, as claimed: every request is followed by the delay, so no two
\* requests are issued back to back.
NoBackToBackRequests ==
    \A i \in DOMAIN log : log[i].ev # "sleep" /\ i < Len(log) => FollowedBySleep(i)

\* C10, amended: the delay follows every detail request and every listing
\* request that returned identifiers; a listing request that returned none
\* or raised is followed by no delay and by no other listing request.
DelayAfterProductiveRequest ==
    \A i \in DOMAIN log :
        /\ log[i].ev = "detail" => FollowedBySleep(i)
        /\ log[i].ev = "list" /\ log[i].got => FollowedBySleep(i)
        /\ log[i].ev = "list" /\ ~log[i].got =>
              /\ ~FollowedBySleep(i)
              /\ \A j \in DOMAIN log : j > i => log[j].ev # "list"
        /\ log[i].ev = "sleep" /\ i > 1 => log[i - 1].ev # "sleep"

BackToBackRequests ==
    \E i \in DOMAIN log :
        /\ i < Len(log)
        /\ log[i] = [ev |-> "list", got |-> FALSE]
        /\ log[i + 1].ev = "detail"
        /\ FollowedBySleep(i + 1)

====
